---- MODULE Spec2Model ----
(***************************************************************************)
(* Model of examples/htool_security_tokens.c: the three token query        *)
(* operations htool_get_tokens_in_set, htool_get_token_set_count and       *)
(* htool_get_token_set_info.  One call of one operation is followed        *)
(* statement by statement: op is the function called, pc the stage the     *)
(* call is in and i the position inside that stage.                        *)
(***************************************************************************)
EXTENDS Integers, Sequences, FiniteSets, TLC

(***************************************************************************)
(* Sizes.  The headers that fix the real byte sizes are not part of the    *)
(* modelled files, so the sizes are scaled down; the code only compares,   *)
(* divides by and copies them.                                             *)
(***************************************************************************)
TOKEN_BYTE_SIZE == 2
MAX_TOKEN_RESPONSE_SIZE == 4
SizeofNonce == 1
SizeofBootNonce == 1
SizeofSignature == 1
SizeofTokenSetInfo == 2
MaxFieldLen == 1
SizeofU32 == 4

(* Longest tokens field tried: reaches the first multiple of the token size
   above the response buffer size. *)
MaxBlobLen == MAX_TOKEN_RESPONSE_SIZE + TOKEN_BYTE_SIZE

(* A byte string of length n; seed picks one of two contents. *)
Blob(n, seed) == [k \in 1..n |-> (k + seed) % 2]

Blobs(n) == {Blob(n, seed) : seed \in {0, 1}}

BlobsUpTo(n) == UNION {Blobs(k) : k \in 0..n}

SetIndexValues == {0, 5}

LIBHOTH_SECURITY_V2 == "LIBHOTH_SECURITY_V2"
LIBHOTH_SECURITY_V3 == "LIBHOTH_SECURITY_V3"
SecurityVersions == {LIBHOTH_SECURITY_V2, LIBHOTH_SECURITY_V3}

(* Statuses htool_exec_security_v2*_cmd can return. *)
HothStatuses == {-1, 0, 1}

Ops == {"htool_get_tokens_in_set", "htool_get_token_set_count",
        "htool_get_token_set_info"}

(* The sinks, named by the parameter that holds their path. *)
TokensSinks == {"token_output", "signature_output", "boot_nonce_output"}
CountSinks == {"num_ids_output", "boot_nonce_output", "signature_output"}
InfoSinks == {"token_set_info"}
Sinks == TokensSinks \cup CountSinks \cup InfoSinks

SinksOf(o) ==
  CASE o = "htool_get_tokens_in_set" -> TokensSinks
    [] o = "htool_get_token_set_count" -> CountSinks
    [] o = "htool_get_token_set_info" -> InfoSinks
    [] OTHER -> {}

(* The locals that receive the response. *)
SerializedParams == {"tokens_param", "boot_nonce_param", "sig_param"}
FixedSlots == {"num_ids", "info", "boot_nonce", "signature"}
Fields == SerializedParams \cup FixedSlots

Uninit == [st |-> "uninit", bytes |-> <<>>]
Null == [st |-> "null", bytes |-> <<>>]
Val(b) == [st |-> "set", bytes |-> b]

Step(k, s) == [k |-> k, s |-> s]

(***************************************************************************)
(* The statements of each operation before the switch on the security     *)
(* version, in source order.                                               *)
(***************************************************************************)
TokensSteps ==
  << Step("dev", ""),
     Step("param", "token_output"), Step("fopen", "token_output"),
     Step("param", "signature_output"), Step("fopen", "signature_output"),
     Step("param", "boot_nonce_output"), Step("fopen", "boot_nonce_output"),
     Step("nonce", ""), Step("u32", ""), Step("version", "") >>

CountSteps ==
  << Step("dev", ""),
     Step("param", "num_ids_output"), Step("fopen", "num_ids_output"),
     Step("param", "boot_nonce_output"), Step("fopen", "boot_nonce_output"),
     Step("param", "signature_output"), Step("fopen", "signature_output"),
     Step("nonce", ""), Step("version", "") >>

(* Mutation of InfoSteps: the version is read before the sink is opened. *)
InfoStepsVersionEarly ==
  << [k |-> "dev", s |-> ""],
     [k |-> "u32", s |-> ""], [k |-> "nonce", s |-> ""],
     [k |-> "version", s |-> ""],
     [k |-> "param", s |-> "token_set_info"],
     [k |-> "fopen", s |-> "token_set_info"] >>

InfoSteps ==
  << Step("dev", ""),
     Step("u32", ""), Step("nonce", ""),
     Step("param", "token_set_info"), Step("fopen", "token_set_info"),
     Step("version", "") >>

Steps(o) ==
  CASE o = "htool_get_tokens_in_set" -> TokensSteps
    [] o = "htool_get_token_set_count" -> CountSteps
    [] o = "htool_get_token_set_info" -> InfoSteps
    [] OTHER -> << >>

(* The handles the cleanup block tests, in source order. *)
TokensCleanup == << "token_output", "boot_nonce_output", "signature_output" >>
CountCleanup == << "num_ids_output", "boot_nonce_output", "signature_output" >>
InfoCleanup == << "token_set_info" >>

CleanupOrder(o) ==
  CASE o = "htool_get_tokens_in_set" -> TokensCleanup
    [] o = "htool_get_token_set_count" -> CountCleanup
    [] o = "htool_get_token_set_info" -> InfoCleanup
    [] OTHER -> << >>

Wr(f, s) == [f |-> f, s |-> s]

(* Mutation of TokensWrites: boot nonce and signature go to each other's sink. *)
TokensWritesSwapped ==
  << [f |-> "tokens_param", s |-> "token_output"],
     [f |-> "boot_nonce_param", s |-> "signature_output"],
     [f |-> "sig_param", s |-> "boot_nonce_output"] >>

(* Mutation of CountWrites: boot nonce and signature go to each other's sink. *)
CountWritesSwapped ==
  << [f |-> "num_ids", s |-> "num_ids_output"],
     [f |-> "boot_nonce", s |-> "signature_output"],
     [f |-> "signature", s |-> "boot_nonce_output"] >>

(* Mutation of InfoWrites: the boot nonce slot is written instead of info. *)
InfoWritesWrongSlot == << [f |-> "boot_nonce", s |-> "token_set_info"] >>

(* The fwrite calls of each operation: which local goes to which sink. *)
TokensWrites ==
  << Wr("tokens_param", "token_output"),
     Wr("boot_nonce_param", "boot_nonce_output"),
     Wr("sig_param", "signature_output") >>

CountWrites ==
  << Wr("num_ids", "num_ids_output"),
     Wr("boot_nonce", "boot_nonce_output"),
     Wr("signature", "signature_output") >>

InfoWrites == << Wr("info", "token_set_info") >>

Writes(o) ==
  CASE o = "htool_get_tokens_in_set" -> TokensWrites
    [] o = "htool_get_token_set_count" -> CountWrites
    [] o = "htool_get_token_set_info" -> InfoWrites
    [] OTHER -> << >>

Param(data, size) == [data |-> data, size |-> size]

(* Mutation of TokensRequestParams: the nonce is placed before set_idx. *)
TokensRequestParamsNonceFirst(idx, nonce) ==
  << [data |-> nonce, size |-> SizeofNonce],
     [data |-> idx, size |-> SizeofU32] >>

(* The request parameters handed to the dispatcher, in declaration order. *)
TokensRequestParams(idx, nonce) ==
  << Param(idx, SizeofU32), Param(nonce, SizeofNonce) >>

CountRequestParams(idx, nonce) == << Param(nonce, SizeofNonce) >>

InfoRequestParams(idx, nonce) ==
  << Param(idx, SizeofU32), Param(nonce, SizeofNonce) >>

RequestParams(o, idx, nonce) ==
  CASE o = "htool_get_tokens_in_set" -> TokensRequestParams(idx, nonce)
    [] o = "htool_get_token_set_count" -> CountRequestParams(idx, nonce)
    [] o = "htool_get_token_set_info" -> InfoRequestParams(idx, nonce)
    [] OTHER -> << >>

MinorCommand(o) ==
  CASE o = "htool_get_tokens_in_set" ->
         "HOTH_PRV_CMD_HOTH_SECURITY_V2_GET_TOKENS_IN_SET_MINOR_COMMAND"
    [] o = "htool_get_token_set_count" ->
         "HOTH_PRV_CMD_HOTH_SECURITY_V2_GET_TOKEN_SET_COUNT_MINOR_COMMAND"
    [] o = "htool_get_token_set_info" ->
         "HOTH_PRV_CMD_HOTH_SECURITY_V2_GET_TOKEN_SET_INFO_MINOR_COMMAND"
    [] OTHER -> ""

Command(o) ==
  [major |-> "HOTH_PRV_CMD_HOTH_SECURITY_V2_TOKENS_MAJOR_COMMAND",
   minor |-> MinorCommand(o),
   base |-> "HOTH_BASE_CMD(HOTH_PRV_CMD_HOTH_SECURITY_V2)"]

NoRequest == [cmd |-> Command(""), params |-> << >>]

(* Mutation of CommandFailed: only negative statuses count as failure. *)
CommandFailedNegativeOnly(hs) == hs < 0

(* if (hoth_status != 0) *)
CommandFailed(hs) == hs # 0

(* Mutation of VersionSupported: every version takes the V2 case. *)
VersionSupportedAny(v) == TRUE

(* case LIBHOTH_SECURITY_V2: of the switch on sv. *)
VersionSupported(v) == v = LIBHOTH_SECURITY_V2

(* Mutation of TokensCheck: the response buffer size check is missing. *)
TokensCheckNoCapacity(tp) ==
  IF tp.st = "null" THEN "missing"
  ELSE IF (Len(tp.bytes) % TOKEN_BYTE_SIZE) # 0 THEN "not_multiple"
  ELSE "ok"

(* Mutation of TokensCheck: the token-size multiple check is missing. *)
TokensCheckNoMultiple(tp) ==
  IF tp.st = "null" THEN "missing"
  ELSE IF Len(tp.bytes) > MAX_TOKEN_RESPONSE_SIZE THEN "too_large"
  ELSE "ok"

(***************************************************************************)
(* The checks htool_get_tokens_in_set makes on the decoded tokens field,   *)
(* in source order; "ok" when the field may be written out.                *)
(***************************************************************************)
TokensCheck(tp) ==
  IF tp.st = "null" THEN "missing"
  ELSE IF Len(tp.bytes) > MAX_TOKEN_RESPONSE_SIZE THEN "too_large"
  ELSE IF (Len(tp.bytes) % TOKEN_BYTE_SIZE) # 0 THEN "not_multiple"
  ELSE "ok"

NoFile == [exists |-> FALSE, data |-> << >>]
OldFile == [exists |-> TRUE, data |-> << 1, 1, 1 >>]
EmptyFile == [exists |-> TRUE, data |-> << >>]

VARIABLES
  op,          \* the operation called, "idle" before the call
  pc,          \* stage of the call
  i,           \* position inside the stage
  status,      \* the local `status`
  ret,         \* the value returned, once pc = "returned"
  dev,         \* result of htool_libhoth_device(): "unknown", "null", "ok"
  fp,          \* the FILE* locals, by sink: "uninit", "null", "open", "closed"
  file,        \* the sink files: whether they exist and their bytes
  challenge,   \* the local `challenge`
  set_idx,     \* the local `set_idx`
  sv,          \* the local `sv`, "unknown" before it is read
  hoth_status, \* the local `hoth_status`
  resp,        \* the locals that receive the response
  request,     \* what the dispatcher was handed
  dispatched,  \* number of dispatcher calls made
  failure,     \* the stage whose failure ended the call, "none" otherwise
  wfault,      \* some fwrite wrote less than it was asked to
  closes,      \* number of fclose calls per sink handle
  ub           \* the undefined behaviours executed

vars == << op, pc, i, status, ret, dev, fp, file, challenge, set_idx, sv,
           hoth_status, resp, request, dispatched, failure, wfault, closes,
           ub >>

Init ==
  /\ op = "idle"
  /\ pc = "idle"
  /\ i = 0
  /\ status = 0
  /\ ret = 0
  /\ dev = "unknown"
  /\ fp = [s \in Sinks |-> "uninit"]
  /\ \E pre \in BOOLEAN :
       file = [s \in Sinks |-> IF pre THEN OldFile ELSE NoFile]
  /\ challenge = Uninit
  /\ set_idx = Uninit
  /\ sv = "unknown"
  /\ hoth_status = 0
  /\ resp = [f \in Fields |-> Uninit]
  /\ request = NoRequest
  /\ dispatched = 0
  /\ failure = "none"
  /\ wfault = FALSE
  /\ closes = [s \in Sinks |-> 0]
  /\ ub = {}

CurStep == Steps(op)[i]

AtStep(k) == pc = "pre" /\ i \in 1..Len(Steps(op)) /\ CurStep.k = k

(* int status = -1; at the head of each operation. *)
Call(o) ==
  /\ pc = "idle"
  /\ op' = o
  /\ pc' = "pre"
  /\ i' = 1
  /\ status' = -1
  /\ UNCHANGED << ret, dev, fp, file, challenge, set_idx, sv, hoth_status,
                  resp, request, dispatched, failure, wfault, closes, ub >>

(* if (!dev) return -1; *)
GetDevice ==
  /\ AtStep("dev")
  /\ \E d \in {"null", "ok"} :
       /\ dev' = d
       /\ IF d = "ok"
          THEN /\ i' = i + 1
               /\ UNCHANGED << pc, ret, failure >>
          ELSE /\ pc' = "returned"
               /\ ret' = -1
               /\ failure' = "dev"
               /\ UNCHANGED i
  /\ UNCHANGED << op, status, fp, file, challenge, set_idx, sv, hoth_status,
                  resp, request, dispatched, wfault, closes, ub >>

(* if (htool_get_param_string(inv, name, &path) != 0) return -1; *)
GetParamString ==
  /\ AtStep("param")
  /\ \E found \in BOOLEAN :
       IF found
       THEN /\ i' = i + 1
            /\ UNCHANGED << pc, ret, failure >>
       ELSE /\ pc' = "returned"
            /\ ret' = -1
            /\ failure' = "param"
            /\ UNCHANGED i
  /\ UNCHANGED << op, status, dev, fp, file, challenge, set_idx, sv,
                  hoth_status, resp, request, dispatched, wfault, closes, ub >>

(* FILE* p = NULL; p = fopen(path, "wb"); if (p == NULL) goto cleanup; *)
Fopen ==
  /\ AtStep("fopen")
  /\ \E opened \in BOOLEAN :
       IF opened
       THEN /\ fp' = [fp EXCEPT ![CurStep.s] = "open"]
            /\ file' = [file EXCEPT ![CurStep.s] = EmptyFile]
            /\ i' = i + 1
            /\ UNCHANGED << pc, failure >>
       ELSE /\ fp' = [fp EXCEPT ![CurStep.s] = "null"]
            /\ pc' = "cleanup"
            /\ i' = 1
            /\ failure' = "fopen"
            /\ UNCHANGED file
  /\ UNCHANGED << op, status, ret, dev, challenge, set_idx, sv, hoth_status,
                  resp, request, dispatched, wfault, closes, ub >>

(* if (get_rand_challenge_nonce(&challenge) != 0) goto cleanup; *)
GetRandChallengeNonce ==
  /\ AtStep("nonce")
  /\ \/ \E n \in Blobs(SizeofNonce) :
          /\ challenge' = Val(n)
          /\ i' = i + 1
          /\ UNCHANGED << pc, failure >>
     \/ /\ pc' = "cleanup"
        /\ i' = 1
        /\ failure' = "nonce"
        /\ UNCHANGED challenge
  /\ UNCHANGED << op, status, ret, dev, fp, file, set_idx, sv, hoth_status,
                  resp, request, dispatched, wfault, closes, ub >>

(* if (htool_get_param_u32(inv, "set_index", &set_idx) != 0) goto cleanup; *)
GetParamU32 ==
  /\ AtStep("u32")
  /\ \/ \E v \in SetIndexValues :
          /\ set_idx' = Val(<< v >>)
          /\ i' = i + 1
          /\ UNCHANGED << pc, failure >>
     \/ /\ pc' = "cleanup"
        /\ i' = 1
        /\ failure' = "u32"
        /\ UNCHANGED set_idx
  /\ UNCHANGED << op, status, ret, dev, fp, file, challenge, sv, hoth_status,
                  resp, request, dispatched, wfault, closes, ub >>

(* sv = htool_get_security_version(dev); switch (sv) ... default: return -1; *)
GetSecurityVersion ==
  /\ AtStep("version")
  /\ \E v \in SecurityVersions :
       /\ sv' = v
       /\ IF VersionSupported(v)
          THEN /\ pc' = "dispatch"
               /\ UNCHANGED << ret, failure >>
          ELSE /\ pc' = "returned"
               /\ ret' = -1
               /\ failure' = "version"
  /\ UNCHANGED << op, i, status, dev, fp, file, challenge, set_idx,
                  hoth_status, resp, request, dispatched, wfault, closes, ub >>

(***************************************************************************)
(* What the serialized decoder leaves in the three output handles when     *)
(* the response carries n fields: the first n handles, in response order,  *)
(* point at a field; the others keep the NULL they were initialised to.    *)
(***************************************************************************)
SerializedDecode(n, t, b, s) ==
  [f \in SerializedParams |->
     CASE f = "tokens_param" -> IF n >= 1 THEN Val(t) ELSE Null
       [] f = "boot_nonce_param" -> IF n >= 2 THEN Val(b) ELSE Null
       [] f = "sig_param" -> IF n >= 3 THEN Val(s) ELSE Null]

(* What the fixed decoder leaves in the response slots of operation o. *)
FixedDecode(o, first, b, s) ==
  [f \in FixedSlots |->
     CASE f = "num_ids" ->
            IF o = "htool_get_token_set_count" THEN Val(first) ELSE Uninit
       [] f = "info" ->
            IF o = "htool_get_token_set_info" THEN Val(first) ELSE Uninit
       [] f = "boot_nonce" -> Val(b)
       [] f = "signature" -> Val(s)]

FirstSlotSize(o) ==
  IF o = "htool_get_token_set_count" THEN SizeofU32 ELSE SizeofTokenSetInfo

Sent(o) ==
  [cmd |-> Command(o), params |-> RequestParams(o, set_idx, challenge)]

(***************************************************************************)
(* htool_get_tokens_in_set: the three handles start NULL, then             *)
(* htool_exec_security_v2_serialized_cmd is called once.                   *)
(***************************************************************************)
ExecSerializedCmd ==
  /\ pc = "dispatch"
  /\ op = "htool_get_tokens_in_set"
  /\ \E hs \in HothStatuses, n \in 0..3, t \in BlobsUpTo(MaxBlobLen),
        b \in BlobsUpTo(MaxFieldLen), s \in BlobsUpTo(MaxFieldLen) :
       /\ hoth_status' = hs
       /\ resp' = [f \in Fields |->
                     IF f \in SerializedParams
                     THEN SerializedDecode(n, t, b, s)[f]
                     ELSE resp[f]]
  /\ request' = Sent(op)
  /\ dispatched' = dispatched + 1
  /\ pc' = "check"
  /\ UNCHANGED << op, i, status, ret, dev, fp, file, challenge, set_idx, sv,
                  failure, wfault, closes, ub >>

(***************************************************************************)
(* htool_get_token_set_count and htool_get_token_set_info:                 *)
(* htool_exec_security_v2_cmd is called once; on status 0 it has filled    *)
(* the three fixed slots, otherwise they keep their indeterminate value.   *)
(***************************************************************************)
ExecSecurityV2Cmd ==
  /\ pc = "dispatch"
  /\ op \in {"htool_get_token_set_count", "htool_get_token_set_info"}
  /\ \E hs \in HothStatuses, first \in Blobs(FirstSlotSize(op)),
        b \in Blobs(SizeofBootNonce), s \in Blobs(SizeofSignature) :
       /\ hoth_status' = hs
       /\ resp' = [f \in Fields |->
                     IF f \in FixedSlots /\ hs = 0
                     THEN FixedDecode(op, first, b, s)[f]
                     ELSE resp[f]]
  /\ request' = Sent(op)
  /\ dispatched' = dispatched + 1
  /\ pc' = "check"
  /\ UNCHANGED << op, i, status, ret, dev, fp, file, challenge, set_idx, sv,
                  failure, wfault, closes, ub >>

(* if (hoth_status != 0) { status = hoth_status; goto cleanup; } *)
CheckHothStatus ==
  /\ pc = "check"
  /\ IF CommandFailed(hoth_status)
     THEN /\ status' = hoth_status
          /\ failure' = "dispatch"
          /\ pc' = "cleanup"
     ELSE /\ pc' = IF op = "htool_get_tokens_in_set" THEN "validate"
                   ELSE "write"
          /\ UNCHANGED << status, failure >>
  /\ i' = 1
  /\ UNCHANGED << op, ret, dev, fp, file, challenge, set_idx, sv, hoth_status,
                  resp, request, dispatched, wfault, closes, ub >>

(* The three checks on tokens_param; each failure is a goto cleanup. *)
ValidateTokens ==
  /\ pc = "validate"
  /\ IF TokensCheck(resp["tokens_param"]) = "ok"
     THEN /\ pc' = "write"
          /\ UNCHANGED failure
     ELSE /\ pc' = "cleanup"
          /\ failure' = TokensCheck(resp["tokens_param"])
  /\ i' = 1
  /\ UNCHANGED << op, status, ret, dev, fp, file, challenge, set_idx, sv,
                  hoth_status, resp, request, dispatched, wfault, closes, ub >>

CurWrite == Writes(op)[i]

AtWrite == pc = "write" /\ i \in 1..Len(Writes(op))

Written(f, bytes) == [exists |-> TRUE, data |-> f.data \o bytes]

(***************************************************************************)
(* fwrite(p, size, 1, fp) of a local that holds a value.  The result of    *)
(* fwrite is not looked at: the call goes on whether all size bytes, or    *)
(* only the first k of them, reached the sink.                             *)
(***************************************************************************)
Fwrite ==
  /\ AtWrite
  /\ resp[CurWrite.f].st = "set"
  /\ \E k \in 0..Len(resp[CurWrite.f].bytes) :
       /\ file' = [file EXCEPT ![CurWrite.s] =
                     Written(@, SubSeq(resp[CurWrite.f].bytes, 1, k))]
       /\ wfault' = (wfault \/ k < Len(resp[CurWrite.f].bytes))
  /\ i' = i + 1
  /\ UNCHANGED << op, pc, status, ret, dev, fp, challenge, set_idx, sv,
                  hoth_status, resp, request, dispatched, failure, closes,
                  ub >>

(* The sink files after the process died with what stdio had buffered. *)
Unflushed == [s \in Sinks |-> IF fp[s] = "open" THEN EmptyFile ELSE file[s]]

(***************************************************************************)
(* fwrite(p->value, p->size, 1, fp) with p == NULL: undefined behaviour.   *)
(* Either the process dies on the access (with or without the bytes stdio  *)
(* had buffered), or the read yields some size and bytes and the call      *)
(* goes on.                                                                *)
(***************************************************************************)
FwriteNullDeref ==
  /\ AtWrite
  /\ resp[CurWrite.f].st = "null"
  /\ ub' = ub \cup {"null_deref"}
  /\ \/ /\ pc' = "crashed"
        /\ file' \in {file, Unflushed}
        /\ UNCHANGED i
     \/ /\ \E g \in BlobsUpTo(MaxFieldLen) :
             file' = [file EXCEPT ![CurWrite.s] = Written(@, g)]
        /\ i' = i + 1
        /\ UNCHANGED pc
  /\ UNCHANGED << op, status, ret, dev, fp, challenge, set_idx, sv,
                  hoth_status, resp, request, dispatched, failure, wfault,
                  closes >>

(* break; status = 0; then control falls into cleanup. *)
SetStatusOk ==
  /\ pc = "write"
  /\ i = Len(Writes(op)) + 1
  /\ status' = 0
  /\ pc' = "cleanup"
  /\ i' = 1
  /\ UNCHANGED << op, ret, dev, fp, file, challenge, set_idx, sv, hoth_status,
                  resp, request, dispatched, failure, wfault, closes, ub >>

CurHandle == CleanupOrder(op)[i]

AtCleanup == pc = "cleanup" /\ i \in 1..Len(CleanupOrder(op))

(* if (p) fclose(p); with p initialised: NULL or an open file. *)
CleanupHandle ==
  /\ AtCleanup
  /\ fp[CurHandle] \in {"null", "open"}
  /\ IF fp[CurHandle] = "open"
     THEN /\ fp' = [fp EXCEPT ![CurHandle] = "closed"]
          /\ closes' = [closes EXCEPT ![CurHandle] = @ + 1]
     ELSE UNCHANGED << fp, closes >>
  /\ i' = i + 1
  /\ UNCHANGED << op, pc, status, ret, dev, file, challenge, set_idx, sv,
                  hoth_status, resp, request, dispatched, failure, wfault,
                  ub >>

(***************************************************************************)
(* if (p) fclose(p); when the goto jumped over p's initialisation: p is    *)
(* indeterminate.  It may read as NULL (nothing happens), or as garbage,   *)
(* and fclose of garbage either kills the process or returns.              *)
(***************************************************************************)
CleanupUninitHandle ==
  /\ AtCleanup
  /\ fp[CurHandle] = "uninit"
  /\ \/ /\ ub' = ub \cup {"uninit_read"}
        /\ i' = i + 1
        /\ UNCHANGED << pc, file, closes >>
     \/ /\ ub' = ub \cup {"uninit_read", "wild_fclose"}
        /\ closes' = [closes EXCEPT ![CurHandle] = @ + 1]
        /\ \/ /\ pc' = "crashed"
              /\ file' \in {file, Unflushed}
              /\ UNCHANGED i
           \/ /\ i' = i + 1
              /\ UNCHANGED << pc, file >>
  /\ UNCHANGED << op, status, ret, dev, fp, challenge, set_idx, sv,
                  hoth_status, resp, request, dispatched, failure, wfault >>

(* return status; *)
ReturnStatus ==
  /\ pc = "cleanup"
  /\ i = Len(CleanupOrder(op)) + 1
  /\ pc' = "returned"
  /\ ret' = status
  /\ UNCHANGED << op, i, status, dev, fp, file, challenge, set_idx, sv,
                  hoth_status, resp, request, dispatched, failure, wfault,
                  closes, ub >>

Next ==
  \/ \E o \in Ops : Call(o)
  \/ GetDevice
  \/ GetParamString
  \/ Fopen
  \/ GetRandChallengeNonce
  \/ GetParamU32
  \/ GetSecurityVersion
  \/ ExecSerializedCmd
  \/ ExecSecurityV2Cmd
  \/ CheckHothStatus
  \/ ValidateTokens
  \/ Fwrite
  \/ FwriteNullDeref
  \/ SetStatusOk
  \/ CleanupHandle
  \/ CleanupUninitHandle
  \/ ReturnStatus

Spec == Init /\ [][Next]_vars

(***************************************************************************)
(* Vocabulary of the properties.                                           *)
(***************************************************************************)
Returned == pc = "returned"

(* The sink file is as it was before the call: never created or truncated. *)
SinkUntouched(s) == file[s] \in {NoFile, OldFile}

(* The sink received no byte: untouched, or opened (truncated) and empty. *)
SinkGotNoByte(s) ==
  IF fp[s] \in {"open", "closed"} THEN file[s] = EmptyFile
  ELSE SinkUntouched(s)

NoSinkByte == \A s \in Sinks : SinkGotNoByte(s)

(* The sink holds exactly the bytes of the local f. *)
SinkHolds(s, f) == file[s] = [exists |-> TRUE, data |-> resp[f].bytes]

DispatcherReturned(o) == op = o /\ dispatched > 0 /\ pc # "dispatch"

(***************************************************************************)
(* C1: in each of the three operations, once the dispatcher has returned a *)
(* nonzero status the call only goes to cleanup and returns: nothing is    *)
(* validated or written, every sink has received no byte, and the value    *)
(* returned is the dispatcher's status.                                    *)
(***************************************************************************)
C1_DispatchFailureReported ==
  (dispatched > 0 /\ hoth_status # 0) =>
    /\ pc \in {"check", "cleanup", "returned"}
    /\ NoSinkByte
    /\ Returned => (ret = hoth_status /\ ret # 0)

C1_Witness ==
  /\ Returned
  /\ op = "htool_get_token_set_count"
  /\ dispatched = 1
  /\ hoth_status = -1
  /\ ret = -1
  /\ \A s \in CountSinks : file[s] = EmptyFile

(***************************************************************************)
(* C2: in htool_get_tokens_in_set, when the decoder returned a tokens      *)
(* field whose length is not a multiple of TOKEN_BYTE_SIZE, the call ends  *)
(* at one of the size checks on that length, returns a failure result and  *)
(* writes no byte to the token, boot-nonce or signature sink.              *)
(***************************************************************************)
C2_NotMultipleRejected ==
  ( /\ DispatcherReturned("htool_get_tokens_in_set")
    /\ hoth_status = 0
    /\ resp["tokens_param"].st = "set"
    /\ Len(resp["tokens_param"].bytes) % TOKEN_BYTE_SIZE # 0 ) =>
    /\ pc \in {"check", "validate", "cleanup", "returned"}
    /\ NoSinkByte
    /\ pc \in {"cleanup", "returned"} =>
         failure \in {"not_multiple", "too_large"}
    /\ Returned => ret = -1

C2_Witness ==
  /\ Returned
  /\ op = "htool_get_tokens_in_set"
  /\ hoth_status = 0
  /\ Len(resp["tokens_param"].bytes) = TOKEN_BYTE_SIZE + 1
  /\ resp["boot_nonce_param"].st = "set"
  /\ resp["sig_param"].st = "set"
  /\ failure = "not_multiple"
  /\ ret = -1
  /\ \A s \in TokensSinks : file[s] = EmptyFile

(***************************************************************************)
(* C3: in htool_get_tokens_in_set, after the dispatcher returned status 0  *)
(* with one of the three output handles still NULL, the call returns       *)
(* failure, no sink receives a byte and no NULL handle is dereferenced.    *)
(***************************************************************************)
C3_MissingFieldRejected ==
  ( /\ DispatcherReturned("htool_get_tokens_in_set")
    /\ hoth_status = 0
    /\ \E f \in SerializedParams : resp[f].st = "null" ) =>
    /\ "null_deref" \notin ub
    /\ pc # "crashed"
    /\ NoSinkByte
    /\ Returned => ret # 0

(***************************************************************************)
(* C4: in each of the three operations, once the version read is not       *)
(* LIBHOTH_SECURITY_V2 the call has returned -1, the dispatcher was not    *)
(* called and no sink has received a byte.                                 *)
(***************************************************************************)
C4_UnsupportedVersionFails ==
  (sv \notin {"unknown", LIBHOTH_SECURITY_V2}) =>
    /\ Returned
    /\ ret = -1
    /\ dispatched = 0
    /\ request = NoRequest
    /\ NoSinkByte

C4_Witness ==
  /\ Returned
  /\ op = "htool_get_token_set_info"
  /\ sv = LIBHOTH_SECURITY_V3
  /\ ret = -1
  /\ dispatched = 0
  /\ file["token_set_info"] = EmptyFile

(***************************************************************************)
(* C5: htool_get_tokens_in_set, when the dispatcher returned status 0 with *)
(* all three fields present and a tokens field that fits the response      *)
(* buffer and whose length is a multiple of TOKEN_BYTE_SIZE, returns 0;    *)
(* and, the sinks having taken every byte handed to them, the token sink   *)
(* holds exactly the tokens field, the boot-nonce sink exactly the         *)
(* boot-nonce field and the signature sink exactly the signature field.    *)
(***************************************************************************)
C5_TokensWrittenToOwnSinks ==
  ( /\ DispatcherReturned("htool_get_tokens_in_set")
    /\ hoth_status = 0
    /\ \A f \in SerializedParams : resp[f].st = "set"
    /\ Len(resp["tokens_param"].bytes) <= MAX_TOKEN_RESPONSE_SIZE
    /\ Len(resp["tokens_param"].bytes) % TOKEN_BYTE_SIZE = 0 ) =>
    /\ pc \in {"check", "validate", "write", "cleanup", "returned"}
    /\ ub = {}
    /\ Returned =>
         /\ ret = 0
         /\ ~wfault =>
              /\ SinkHolds("token_output", "tokens_param")
              /\ SinkHolds("boot_nonce_output", "boot_nonce_param")
              /\ SinkHolds("signature_output", "sig_param")

C5_Witness ==
  /\ Returned
  /\ op = "htool_get_tokens_in_set"
  /\ ret = 0
  /\ ~wfault
  /\ Len(resp["tokens_param"].bytes) = 2 * TOKEN_BYTE_SIZE
  /\ file["token_output"].data = resp["tokens_param"].bytes
  /\ file["boot_nonce_output"].data = resp["boot_nonce_param"].bytes
  /\ file["signature_output"].data = resp["sig_param"].bytes
  /\ resp["boot_nonce_param"].bytes # resp["sig_param"].bytes

(***************************************************************************)
(* C6: htool_get_token_set_count, when the dispatcher returned status 0,   *)
(* returns 0; and, the sinks having taken every byte handed to them, the   *)
(* num_ids sink holds exactly the 4 bytes of the count slot, the           *)
(* boot-nonce sink exactly the boot-nonce slot and the signature sink      *)
(* exactly the signature slot.                                             *)
(***************************************************************************)
C6_CountWrittenToOwnSinks ==
  ( /\ DispatcherReturned("htool_get_token_set_count")
    /\ hoth_status = 0 ) =>
    /\ pc \in {"check", "write", "cleanup", "returned"}
    /\ ub = {}
    /\ \A f \in {"num_ids", "boot_nonce", "signature"} : resp[f].st = "set"
    /\ Len(resp["num_ids"].bytes) = SizeofU32
    /\ Returned =>
         /\ ret = 0
         /\ ~wfault =>
              /\ SinkHolds("num_ids_output", "num_ids")
              /\ SinkHolds("boot_nonce_output", "boot_nonce")
              /\ SinkHolds("signature_output", "signature")

C6_Witness ==
  /\ Returned
  /\ op = "htool_get_token_set_count"
  /\ ret = 0
  /\ ~wfault
  /\ file["num_ids_output"].data = resp["num_ids"].bytes
  /\ Len(file["num_ids_output"].data) = SizeofU32
  /\ file["boot_nonce_output"].data = resp["boot_nonce"].bytes
  /\ file["signature_output"].data = resp["signature"].bytes
  /\ resp["boot_nonce"].bytes # resp["signature"].bytes

(***************************************************************************)
(* C7: htool_get_token_set_info, when the dispatcher returned status 0,    *)
(* returns 0; and, the sink having taken every byte handed to it, the info *)
(* sink holds exactly the bytes of the info slot and nothing else, and no  *)
(* other sink file is touched.                                             *)
(***************************************************************************)
C7_InfoWrittenToSink ==
  ( /\ DispatcherReturned("htool_get_token_set_info")
    /\ hoth_status = 0 ) =>
    /\ pc \in {"check", "write", "cleanup", "returned"}
    /\ ub = {}
    /\ resp["info"].st = "set"
    /\ Len(resp["info"].bytes) = SizeofTokenSetInfo
    /\ \A s \in Sinks \ InfoSinks : SinkUntouched(s)
    /\ Returned =>
         /\ ret = 0
         /\ ~wfault => SinkHolds("token_set_info", "info")

C7_Witness ==
  /\ Returned
  /\ op = "htool_get_token_set_info"
  /\ ret = 0
  /\ ~wfault
  /\ set_idx = Val(<< 5 >>)
  /\ file["token_set_info"].data = resp["info"].bytes
  /\ Len(file["token_set_info"].data) = SizeofTokenSetInfo

PreconditionFailures == {"dev", "param", "fopen", "nonce", "u32"}

NeedsSetIndex(o) ==
  o \in {"htool_get_tokens_in_set", "htool_get_token_set_info"}

(* Everything the operation needs before the exchange has succeeded. *)
PreconditionsHeld ==
  /\ dev = "ok"
  /\ \A s \in SinksOf(op) : fp[s] \in {"open", "closed"}
  /\ challenge.st = "set"
  /\ NeedsSetIndex(op) => set_idx.st = "set"

(***************************************************************************)
(* C8: in each of the three operations the dispatcher is called only once  *)
(* the device handle, every named parameter, every sink and the nonce have *)
(* been obtained; and when one of them fails the call returns failure      *)
(* without the dispatcher having been called.                              *)
(***************************************************************************)
C8_PreconditionFailureReturns ==
  /\ dispatched > 0 => PreconditionsHeld
  /\ failure \in PreconditionFailures =>
       /\ dispatched = 0
       /\ request = NoRequest
       /\ pc \in {"cleanup", "returned"}
       /\ Returned => ret # 0

(***************************************************************************)
(* C9: a sink open failure or a short or failed write to a sink makes the  *)
(* operation return failure: it never returns 0 while a sink lacks part of *)
(* the field that was to be written to it.                                 *)
(***************************************************************************)
C9_SinkFailuresReported ==
  /\ (Returned /\ failure = "fopen") => ret # 0
  /\ (Returned /\ wfault) => ret # 0
  /\ (Returned /\ ret = 0) =>
       \A k \in 1..Len(Writes(op)) :
         SinkHolds(Writes(op)[k].s, Writes(op)[k].f)

(***************************************************************************)
(* C10 as stated: reading the version is the first effect of each          *)
(* operation.  While the version is unknown no sink file has been created  *)
(* or truncated and no nonce generated, and once an unsupported version    *)
(* was read no sink file has been created or truncated either.             *)
(***************************************************************************)
C10_VersionFirst ==
  /\ sv = "unknown" =>
       /\ \A s \in Sinks : SinkUntouched(s)
       /\ challenge.st = "uninit"
  /\ sv \notin {"unknown", LIBHOTH_SECURITY_V2} =>
       \A s \in Sinks : SinkUntouched(s)

(***************************************************************************)
(* C10 amended: reading the version is the last step before the exchange.  *)
(* While the version is unknown no request has been dispatched and no sink *)
(* has received a byte; when the version is read the device handle was     *)
(* obtained, every sink of the operation has been opened (created or       *)
(* truncated) and the nonce generated; and an unsupported version leaves   *)
(* every sink of the operation behind as an empty file, with no request    *)
(* dispatched.                                                             *)
(***************************************************************************)
C10_VersionLastBeforeExchange ==
  /\ sv = "unknown" =>
       /\ dispatched = 0
       /\ request = NoRequest
       /\ pc \in {"idle", "pre", "cleanup", "returned", "crashed"}
       /\ NoSinkByte
  /\ sv # "unknown" => PreconditionsHeld
  /\ sv \notin {"unknown", LIBHOTH_SECURITY_V2} =>
       /\ dispatched = 0
       /\ \A s \in SinksOf(op) : file[s] = EmptyFile

C10_Witness ==
  /\ Returned
  /\ op = "htool_get_tokens_in_set"
  /\ sv = LIBHOTH_SECURITY_V3
  /\ challenge.st = "set"
  /\ \A s \in TokensSinks : file[s] = EmptyFile /\ fp[s] = "open"
  /\ dispatched = 0

(***************************************************************************)
(* C11: the request handed to the dispatcher carries the operation's       *)
(* parameters in declaration order with their fixed sizes: the nonce alone *)
(* for htool_get_token_set_count; set_idx (4 bytes, the value the caller   *)
(* supplied) and then the nonce for the other two.  The nonce is the one   *)
(* generated in this call, and the command triple is the operation's       *)
(* constant whatever the caller supplied.                                  *)
(***************************************************************************)
C11_RequestAsDeclared ==
  dispatched > 0 =>
    /\ challenge.st = "set"
    /\ challenge.bytes \in Blobs(SizeofNonce)
    /\ request.cmd.major = "HOTH_PRV_CMD_HOTH_SECURITY_V2_TOKENS_MAJOR_COMMAND"
    /\ request.cmd.base = "HOTH_BASE_CMD(HOTH_PRV_CMD_HOTH_SECURITY_V2)"
    /\ op = "htool_get_token_set_count" =>
         /\ request.cmd.minor =
              "HOTH_PRV_CMD_HOTH_SECURITY_V2_GET_TOKEN_SET_COUNT_MINOR_COMMAND"
         /\ Len(request.params) = 1
         /\ request.params[1] = [data |-> challenge, size |-> SizeofNonce]
    /\ op \in {"htool_get_tokens_in_set", "htool_get_token_set_info"} =>
         /\ request.cmd.minor =
              IF op = "htool_get_tokens_in_set"
              THEN "HOTH_PRV_CMD_HOTH_SECURITY_V2_GET_TOKENS_IN_SET_MINOR_COMMAND"
              ELSE "HOTH_PRV_CMD_HOTH_SECURITY_V2_GET_TOKEN_SET_INFO_MINOR_COMMAND"
         /\ Len(request.params) = 2
         /\ set_idx.st = "set"
         /\ set_idx.bytes[1] \in SetIndexValues
         /\ request.params[1] = [data |-> set_idx, size |-> 4]
         /\ request.params[2] = [data |-> challenge, size |-> SizeofNonce]

C11_Witness ==
  /\ op = "htool_get_tokens_in_set"
  /\ pc = "check"
  /\ dispatched = 1
  /\ Len(request.params) = 2
  /\ request.params[1].data = Val(<< 5 >>)
  /\ request.params[1].size = 4
  /\ request.params[2].data = challenge
  /\ challenge.st = "set"

(***************************************************************************)
(* C12: a call issues at most one request, and exactly one once every      *)
(* precondition held and the version is V2; after the first failure it     *)
(* only runs its cleanup and returns a failure value, with no request      *)
(* issued afterwards and no later stage entered; and every call ends by    *)
(* returning: 0 when nothing failed, a nonzero value otherwise.  A call    *)
(* that has not returned can always take its next step.                    *)
(***************************************************************************)
C12_OneRequestThenTerminal ==
  /\ dispatched <= 1
  /\ (sv = LIBHOTH_SECURITY_V2 /\ pc # "dispatch") => dispatched = 1
  /\ failure # "none" =>
       /\ pc \in {"cleanup", "returned"}
       /\ failure \in PreconditionFailures \cup {"version"} => dispatched = 0
       /\ Returned => ret # 0
  /\ (Returned /\ failure = "none") => ret = 0
  /\ Returned \/ ENABLED Next

AllFieldsPresent ==
  /\ DispatcherReturned("htool_get_tokens_in_set")
  /\ hoth_status = 0
  /\ \A f \in SerializedParams : resp[f].st = "set"

TokensLen == Len(resp["tokens_param"].bytes)

(***************************************************************************)
(* C13: htool_get_tokens_in_set, after the dispatcher returned status 0    *)
(* with all three fields present.  With every field of length zero the     *)
(* call returns 0 and leaves the three sinks empty.  A tokens length that  *)
(* is a multiple of TOKEN_BYTE_SIZE and at most the response buffer size   *)
(* passes the checks and the call returns 0.  A tokens length above the    *)
(* response buffer size is rejected: the call returns failure and no sink  *)
(* receives a byte.                                                        *)
(***************************************************************************)
C13_TokensLengthBoundaries ==
  AllFieldsPresent =>
    /\ (\A f \in SerializedParams : resp[f].bytes = << >>) =>
         /\ pc \in {"check", "validate", "write", "cleanup", "returned"}
         /\ NoSinkByte
         /\ ~wfault
         /\ Returned =>
              (ret = 0 /\ \A s \in TokensSinks : file[s] = EmptyFile)
    /\ (TokensLen % TOKEN_BYTE_SIZE = 0
          /\ TokensLen <= MAX_TOKEN_RESPONSE_SIZE) =>
         /\ pc \in {"check", "validate", "write", "cleanup", "returned"}
         /\ failure = "none"
         /\ Returned => ret = 0
    /\ TokensLen > MAX_TOKEN_RESPONSE_SIZE =>
         /\ pc \in {"check", "validate", "cleanup", "returned"}
         /\ NoSinkByte
         /\ pc \in {"cleanup", "returned"} => failure = "too_large"
         /\ Returned => ret = -1

C13_Witness ==
  /\ AllFieldsPresent
  /\ Returned
  /\ \A f \in SerializedParams : resp[f].bytes = << >>
  /\ ret = 0
  /\ failure = "none"
  /\ \A s \in TokensSinks : file[s] = EmptyFile /\ fp[s] = "closed"

(***************************************************************************)
(* C14: when an operation has returned, on whatever path, every sink file  *)
(* it opened has been closed exactly once: no handle is still open and no  *)
(* handle was closed twice.                                                *)
(***************************************************************************)
C14_OpenedSinksClosedOnce ==
  Returned =>
    \A s \in Sinks :
      /\ fp[s] # "open"
      /\ closes[s] <= 1
      /\ fp[s] = "closed" => closes[s] = 1

(***************************************************************************)
(* C15: whenever control is in the cleanup block, every handle the block   *)
(* is still to test has been initialised, to NULL or to an open file; so   *)
(* cleanup never reads or closes an uninitialised handle.                  *)
(***************************************************************************)
C15_CleanupHandlesInitialised ==
  /\ pc = "cleanup" =>
       \A k \in i..Len(CleanupOrder(op)) :
         fp[CleanupOrder(op)[k]] \in {"null", "open"}
  /\ "uninit_read" \notin ub
  /\ "wild_fclose" \notin ub
====
